---- MODULE Spec2Model ----
(***************************************************************************)
(* Model of src/llm_enhanced_vocalize.py: analyze_script, the line         *)
(* annotator that persists its progress after every line and resumes from  *)
(* analysis_progress/progress.json, and analyze_line_with_llm, the call to *)
(* the external analyzer with its default-record fallback; and of          *)
(* src/trim_silence.py: detect_and_trim_silence and the batch loop of main.*)
(*                                                                         *)
(* Line indices are 0-based as in the source; TLA+ sequences are 1-based,  *)
(* so line i of the source is lines[i + 1].  Python values are written as  *)
(* strings of their literal ("False", "5", "1.0"); None is the value None. *)
(***************************************************************************)
EXTENDS Integers, Sequences, FiniteSets, TLC

\* ------------------------------------------------------------------ bounds
MaxLines == 3
MaxLaunches == 2
MaxCrashes == 1
MaxContextLines == 13
MaxSegs == 3
MaxFiles == 2
MaxMarkLines == 3
MaxGenLines == 2
MaxOps == 2

\* ------------------------------------------------------------------ values
Speakers == {"Ann", "Bob"}
None == "<None>"
Fail == "<exception>"

\* what the external service does with one prompt: it answers with a
\* speaker label, or the call (or the parsing of its answer) raises
ExtOutcomes == Speakers \cup {Fail}

Max(x, y) == IF x >= y THEN x ELSE y
Min(x, y) == IF x <= y THEN x ELSE y

\* the first n non-blank lines of a story whose lines alternate between the
\* two texts (so a text repeats from three lines on)
Story(n) == [j \in 1..n |-> IF j % 2 = 1 THEN "a" ELSE "b"]

\* what input.txt can hold at a launch: the story cut at any length; a file
\* that is empty, blank or unreadable gives the empty list
Inputs == {Story(n) : n \in 0..MaxLines}

\* ------------------------------------------------- split_text_into_chunks
\* len(encoding.encode(line)): the tokenizer is a fixed function of the text
TokenCount(line) == IF line = "a" THEN 1 ELSE 2

LineTokens(ls) == [j \in 1..Len(ls) |-> TokenCount(ls[j])]

\* ---------------------------------------------------- analyze_line_with_llm
\* a window that reaches six lines past the current one
ContextWindowSixAfter(context_lines, line_index, total_lines) ==
    LET start_idx == Max(0, line_index - 5)
        end_idx == Min(total_lines, line_index + 7)
    IN  SubSeq(context_lines, start_idx + 1, end_idx)

\* context_lines[start_idx:end_idx]
ContextWindow(context_lines, line_index, total_lines) ==
    LET start_idx == Max(0, line_index - 5)
        end_idx == Min(total_lines, line_index + 6)
    IN  SubSeq(context_lines, start_idx + 1, end_idx)

\* context.replace(line, "[CURRENT LINE]: " + line): every line of the
\* window that contains the text of the current line gets the marker
MarkCurrent(context, line) ==
    [j \in 1..Len(context) |-> [text |-> context[j], marked |-> context[j] = line]]

\* ', '.join(characters_seen) raises TypeError when an item is not a string
JoinRaises(characters_seen) == None \in characters_seen

\* the prompt the external service sees: the marked window and the speakers
Prompt(line, context_lines, line_index, total_lines, characters_seen) ==
    <<MarkCurrent(ContextWindow(context_lines, line_index, total_lines), line),
      characters_seen>>

DefaultAnalysis ==
    [is_dialogue |-> "False", character |-> None, emotion |-> "neutral",
     intensity |-> "5", pause_after |-> "1.0",
     voice_instructions |-> "Read in a natural, clear voice.",
     is_scene_transition |-> "False", is_action |-> "False",
     sound_effects |-> <<>>]

\* json.loads(response.output_text) under the strict schema: every field is
\* present and is a string (sound_effects a list of strings)
LLMAnalysis(speaker) ==
    [is_dialogue |-> "'true'", character |-> speaker, emotion |-> "'joy'",
     intensity |-> "'7'", pause_after |-> "'1.5'",
     voice_instructions |-> "'warmly'",
     is_scene_transition |-> "'false'", is_action |-> "'false'",
     sound_effects |-> <<"'door'">>]

\* a fallback that names the narrator as the speaker of a failed line
analyze_line_with_llm_narrator(line, context_lines, line_index, total_lines, characters_seen, ext) ==
    IF JoinRaises(characters_seen) \/ ext = Fail
    THEN [DefaultAnalysis EXCEPT !.character = "Narrator"]
    ELSE LLMAnalysis(ext)

\* ext is the outcome of client.responses.create + json.loads for the prompt;
\* building the prompt happens inside the try block, so a TypeError of the
\* join is caught like a failure of the call
analyze_line_with_llm(line, context_lines, line_index, total_lines, characters_seen, ext) ==
    IF JoinRaises(characters_seen) \/ ext = Fail
    THEN DefaultAnalysis
    ELSE LLMAnalysis(ext)

\* ------------------------------------------------------------ analyze_script
\* analysis["original_text"] = lines[i]; analysis["token_count"] = line_tokens[i]
WithOriginal(analysis, text, tokens) ==
    [is_dialogue |-> analysis.is_dialogue, character |-> analysis.character,
     emotion |-> analysis.emotion, intensity |-> analysis.intensity,
     pause_after |-> analysis.pause_after,
     voice_instructions |-> analysis.voice_instructions,
     is_scene_transition |-> analysis.is_scene_transition,
     is_action |-> analysis.is_action, sound_effects |-> analysis.sound_effects,
     original_text |-> text, token_count |-> tokens]

\* characters_seen.add(analysis["character"])
AddSeen(characters_seen, analysis) == characters_seen \cup {analysis.character}

\* an append that skips a record whose text the list already holds
AppendRecordDedup(recs, analysis) ==
    IF \E j \in 1..Len(recs) : recs[j].original_text = analysis.original_text
    THEN recs
    ELSE Append(recs, analysis)

\* analyses.append(analysis)
AppendRecord(recs, analysis) == Append(recs, analysis)

\* characters_seen = set(), whatever was loaded from the progress file
InitialSeen(loaded) == {}

RECURSIVE SumTokens(_)
SumTokens(recs) ==
    IF recs = <<>> THEN 0
    ELSE recs[1].token_count + SumTokens(Tail(recs))

\* Python truth of a scalar field: False, None and "" are false, and a
\* non-empty string (also the string 'false' of the schema) is true
Truthy(v) == v \notin {"False", None, ""}

\* Python truth of a list: [] is false
TruthyList(v) == Len(v) > 0

\* one entry of enhanced_script.txt: the lines written for one record
RenderEntry(n, analysis) ==
    [line_no |-> n,
     text |-> analysis.original_text,
     dialogue |-> Truthy(analysis.is_dialogue),
     character_shown |-> Truthy(analysis.is_dialogue) /\ Truthy(analysis.character),
     emotion |-> analysis.emotion,
     intensity |-> analysis.intensity,
     voice |-> analysis.voice_instructions,
     sound_effects_shown |-> TruthyList(analysis.sound_effects),
     pause_after |-> analysis.pause_after]

RenderScript(recs) == [n \in 1..Len(recs) |-> RenderEntry(n, recs[n])]

NoFile == [state |-> "absent", analyses |-> <<>>]
\* the file after open(progress_file, "w") and before json.dump has finished:
\* empty or a proper prefix of the JSON text, which json.load rejects
TruncatedFile == [state |-> "malformed", analyses |-> <<>>]
ValidFile(recs) == [state |-> "valid", analyses |-> recs]

NoOutput == [exists |-> FALSE, lines |-> <<>>, total_lines |-> 0, total_tokens |-> 0]

VARIABLES
    pc,               \* position of the process in analyze_script
    lines,            \* lines of the input file (this launch)
    line_tokens,      \* token count of each line
    analyses,         \* the in-memory list of records
    start_index,      \* start_index of this launch
    i,                \* loop variable of the for loop
    characters_seen,  \* the set characters_seen
    progress_file,    \* analysis_progress/progress.json on disk
    json_output,      \* enhanced_script.json on disk
    text_output,      \* the entries of enhanced_script.txt on disk
    result,           \* what analyze_script returned
    memo,             \* answers the external service has given, by prompt
    launches, crashes,
    \* history of the current launch
    store_at_launch,  \* what the launch found on disk
    len_at_launch,    \* the number of records of the store the launch loaded
    persisted_before, \* the number of records persisted before the launch
    passed,           \* passed[j + 1]: the set handed to the analyzer for line j
    defaulted,        \* lines whose analysis came from the except branch
    ext_failed,       \* lines whose external call (or its parsing) raised
    processed,        \* the indices the loop body has run for, in order
    \* history across launches
    first_input,      \* the input of the first launch
    same_input,       \* every launch so far read the same input
    clean_stops,      \* every termination so far came between two passes of the loop
    last_persisted,   \* the store as of the last finished write
    ref_analyses,     \* the records of one uninterrupted run on first_input
    ref_seen          \* characters_seen of that uninterrupted run

VARIABLES
    \* one call of analyze_line_with_llm on a longer script
    ctx_pc,           \* "off", "call" (arguments bound), "built" or "marked"
    ctx_lines,        \* context_lines
    ctx_index,        \* line_index
    ctx_window,       \* the lines joined into context
    ctx_highlight     \* context_with_highlight

ctx_vars == <<ctx_pc, ctx_lines, ctx_index, ctx_window, ctx_highlight>>

VARIABLES
    \* trim_silence.py: one run of main
    tpc,              \* "off", "main", "mkdir", "glob", "loop", "scan", "exited"
    args,             \* the parsed command line
    env,              \* what the file system answers to isdir and makedirs
    fs,               \* the files: path -> content
    fs0,              \* history: the files when main started
    audio_files,      \* the paths globbed from the input directory
    file_index,       \* how many of audio_files the loop has taken
    audio,            \* the decoded buffer of the file being scanned
    chunk_start,      \* i, the offset of the next chunk
    silence_starts,   \* the current run of silent chunk offsets
    processed_count,
    trimmed_count,
    exit_code,        \* the status the process ended with, -1 while running
    uncaught,         \* the process ended by an exception main does not catch
    results           \* history: what detect_and_trim_silence returned, per file

trim_vars == <<tpc, args, env, fs, fs0, audio_files, file_index, audio,
               chunk_start, silence_starts, processed_count, trimmed_count,
               exit_code, uncaught, results>>

VARIABLES
    \* interactive_audio_generation.py: a StoryGenerator and its menu
    gpc,              \* "off", "menu" or "crashed" (an uncaught exception)
    script_data,      \* self.script_data["lines"]
    script_file,      \* the lines of the JSON file as last saved
    audio_dir,        \* the numbers k of the files line{k}.mp3 that exist
    op_count,         \* how many menu choices or calls were made
    last_op,          \* history: the last call, its argument and result
    prev_op,          \* history: the call before it
    generated         \* history: the indices the last call generated audio for

gen_vars == <<gpc, script_data, script_file, audio_dir, op_count, last_op,
              prev_op, generated>>

\* what the annotator leaves alone
beside_annotator == <<ctx_vars, trim_vars, gen_vars>>

annotator_vars == <<pc, lines, line_tokens, analyses, start_index, i, characters_seen,
          progress_file, json_output, text_output, result, memo, launches,
          crashes,
          store_at_launch, len_at_launch, persisted_before, passed, defaulted,
          ext_failed, processed, first_input, same_input, clean_stops, last_persisted,
          ref_analyses, ref_seen>>

vars == <<annotator_vars, ctx_vars, trim_vars, gen_vars>>

\* what the trimmer and the context window leave alone
beside_trimmer == <<annotator_vars, ctx_vars, gen_vars>>
beside_context == <<annotator_vars, trim_vars, gen_vars>>

disk == <<progress_file, json_output, text_output>>
memory == <<lines, line_tokens, analyses, start_index, i, characters_seen>>
run_history == <<store_at_launch, len_at_launch, persisted_before,
                 passed, defaulted, ext_failed, processed>>
reference == <<ref_analyses, ref_seen>>

ContextAtRest ==
    /\ ctx_pc = "off"
    /\ ctx_lines = <<>>
    /\ ctx_index = 0
    /\ ctx_window = <<>>
    /\ ctx_highlight = <<>>

AnnotatorAtRest ==
    /\ pc = "idle"
    /\ lines = <<>>
    /\ line_tokens = <<>>
    /\ analyses = <<>>
    /\ start_index = 0
    /\ i = 0
    /\ characters_seen = {}
    /\ progress_file = NoFile
    /\ json_output = NoOutput
    /\ text_output = <<>>
    /\ result = "none"
    /\ memo = <<>>
    /\ launches = 0
    /\ crashes = 0
    /\ store_at_launch = "none"
    /\ len_at_launch = 0
    /\ persisted_before = 0
    /\ passed = <<>>
    /\ defaulted = {}
    /\ ext_failed = {}
    /\ processed = <<>>
    /\ first_input = <<>>
    /\ same_input = TRUE
    /\ clean_stops = TRUE
    /\ last_persisted = <<>>
    /\ ref_analyses = <<>>
    /\ ref_seen = {}

TrimmerAtRest ==
    /\ tpc = "off"
    /\ args = [output_dir |-> None, silence_threshold |-> -50,
               min_silence_duration |-> 1000]
    /\ env = [input_is_dir |-> TRUE, makedirs_ok |-> TRUE]
    /\ fs = <<>>
    /\ fs0 = <<>>
    /\ audio_files = <<>>
    /\ file_index = 0
    /\ audio = <<>>
    /\ chunk_start = 0
    /\ silence_starts = <<>>
    /\ processed_count = 0
    /\ trimmed_count = 0
    /\ exit_code = -1
    /\ uncaught = FALSE
    /\ results = <<>>

NoOp == [op |-> "none", index |-> 0, ret |-> "none", all_ok |-> TRUE]

GeneratorAtRest ==
    /\ gpc = "off"
    /\ script_data = <<>>
    /\ script_file = <<>>
    /\ audio_dir = {}
    /\ op_count = 0
    /\ last_op = NoOp
    /\ prev_op = NoOp
    /\ generated = {}

Init ==
    /\ AnnotatorAtRest
    /\ ContextAtRest
    /\ TrimmerAtRest
    /\ GeneratorAtRest

\* lines 124-133: read the input; an empty list returns the error string
Launch(input) ==
    /\ pc \in {"idle", "complete", "failed"}
    /\ launches < MaxLaunches
    /\ launches' = launches + 1
    /\ lines' = input
    /\ line_tokens' = LineTokens(input)
    /\ analyses' = <<>>
    /\ start_index' = 0
    /\ i' = 0
    /\ characters_seen' = {}
    /\ store_at_launch' = "none"
    /\ len_at_launch' = 0
    /\ persisted_before' = 0
    /\ passed' = <<>>
    /\ defaulted' = {}
    /\ ext_failed' = {}
    /\ processed' = <<>>
    /\ first_input' = IF launches = 0 THEN input ELSE first_input
    /\ same_input' = (same_input /\ (launches = 0 \/ input = first_input))
    /\ IF input = <<>>
       THEN pc' = "failed" /\ result' = "Failed to read input file"
       ELSE pc' = "resuming" /\ result' = "none"
    /\ UNCHANGED beside_annotator
    /\ UNCHANGED <<disk, memo, crashes, clean_stops, last_persisted, reference>>

\* a load that gives the run up when the progress file does not parse
LoadProgressStrict ==
    /\ pc = "resuming"
    /\ IF progress_file.state = "malformed"
       THEN /\ pc' = "failed"
            /\ UNCHANGED <<analyses, start_index, store_at_launch,
                           len_at_launch, persisted_before, characters_seen, i>>
       ELSE /\ analyses' = progress_file.analyses
            /\ start_index' = Len(progress_file.analyses)
            /\ store_at_launch' = progress_file.state
            /\ len_at_launch' = Len(progress_file.analyses)
            /\ persisted_before' = Len(last_persisted)
            /\ characters_seen' = InitialSeen(analyses')
            /\ i' = start_index'
            /\ pc' = "processing"
    /\ UNCHANGED beside_annotator
    /\ UNCHANGED <<lines, line_tokens, disk, result, memo, launches, crashes,
                   passed, defaulted, ext_failed, processed,
                   first_input, same_input, clean_stops, last_persisted,
                   reference>>

\* lines 136-148: load the progress file if it exists and parses
LoadProgress ==
    /\ pc = "resuming"
    /\ IF progress_file.state = "valid"
       THEN /\ analyses' = progress_file.analyses
            /\ start_index' = Len(progress_file.analyses)
            /\ store_at_launch' = "loaded"
       ELSE /\ analyses' = <<>>
            /\ start_index' = 0
            /\ store_at_launch' = progress_file.state
    /\ len_at_launch' = IF progress_file.state = "valid"
                        THEN Len(progress_file.analyses) ELSE 0
    /\ persisted_before' = Len(last_persisted)
    /\ characters_seen' = InitialSeen(analyses')
    /\ i' = start_index'
    /\ pc' = "processing"
    /\ UNCHANGED beside_annotator
    /\ UNCHANGED <<lines, line_tokens, disk, result, memo, launches, crashes,
                   passed, defaulted, ext_failed, processed,
                   first_input, same_input, clean_stops, last_persisted,
                   reference>>

\* the external service is a function of its prompt: a prompt it has
\* answered before gets the same answer
ExtendMemo(m, prompt, ext) ==
    [k \in DOMAIN m \cup {prompt} |-> IF k = prompt THEN ext ELSE m[k]]

Answers(m, prompt, ext) == prompt \in DOMAIN m => ext = m[prompt]

\* lines 151-160: one pass of the loop body up to analyses.append.  The
\* uninterrupted reference run takes the same step for line i, with its own
\* characters_seen, the first time line i is analysed.
AnalyzeLine ==
    /\ pc = "processing"
    /\ i < Len(lines)
    /\ \E ext \in ExtOutcomes, rext \in ExtOutcomes :
        LET line == lines[i + 1]
            called == ~JoinRaises(characters_seen)
            prompt == Prompt(line, lines, i, Len(lines), characters_seen)
            analysis == WithOriginal(
                analyze_line_with_llm(line, lines, i, Len(lines), characters_seen, ext),
                line, line_tokens[i + 1])
            memo1 == IF called THEN ExtendMemo(memo, prompt, ext) ELSE memo
            rstep == same_input /\ Len(ref_analyses) = i
            rcalled == rstep /\ ~JoinRaises(ref_seen)
            rprompt == Prompt(line, lines, i, Len(lines), ref_seen)
            ranalysis == WithOriginal(
                analyze_line_with_llm(line, lines, i, Len(lines), ref_seen, rext),
                line, line_tokens[i + 1])
        IN  /\ IF called THEN Answers(memo, prompt, ext) ELSE ext = Fail
            /\ IF rcalled THEN Answers(memo1, rprompt, rext) ELSE rext = Fail
            /\ memo' = IF rcalled THEN ExtendMemo(memo1, rprompt, rext) ELSE memo1
            /\ passed' = Append(passed, characters_seen)
            /\ characters_seen' = AddSeen(characters_seen, analysis)
            /\ analyses' = AppendRecord(analyses, analysis)
            /\ defaulted' = IF called /\ ext # Fail THEN defaulted ELSE defaulted \cup {i}
            /\ ext_failed' = IF called /\ ext = Fail THEN ext_failed \cup {i} ELSE ext_failed
            /\ ref_analyses' = IF rstep THEN Append(ref_analyses, ranalysis) ELSE ref_analyses
            /\ ref_seen' = IF rstep THEN AddSeen(ref_seen, ranalysis) ELSE ref_seen
    /\ processed' = Append(processed, i)
    /\ pc' = "analyzed"
    /\ UNCHANGED beside_annotator
    /\ UNCHANGED <<lines, line_tokens, start_index, i, disk, result,
                   launches, crashes, store_at_launch, len_at_launch,
                   persisted_before, first_input, same_input, clean_stops, last_persisted>>

\* line 163: open(progress_file, "w") truncates the file
OpenProgress ==
    /\ pc = "analyzed"
    /\ progress_file' = TruncatedFile
    /\ pc' = "writing"
    /\ UNCHANGED beside_annotator
    /\ UNCHANGED <<memory, json_output, text_output, result, memo, launches,
                   crashes, run_history, first_input, same_input, clean_stops,
                   last_persisted, reference>>

\* lines 164-167: json.dump of the whole list, close, sleep, next index
DumpProgress ==
    /\ pc = "writing"
    /\ progress_file' = ValidFile(analyses)
    /\ last_persisted' = analyses
    /\ i' = i + 1
    /\ pc' = "processing"
    /\ UNCHANGED beside_annotator
    /\ UNCHANGED <<lines, line_tokens, analyses, start_index, characters_seen,
                   json_output, text_output, result, memo, launches, crashes,
                   run_history, first_input, same_input, clean_stops,
                   reference>>

\* lines 169-201: the range is exhausted; write the text file and the JSON
\* file from the list and return the list
Finish ==
    /\ pc = "processing"
    /\ i >= Len(lines)
    /\ text_output' = RenderScript(analyses)
    /\ json_output' = [exists |-> TRUE, lines |-> analyses,
                       total_lines |-> Len(analyses),
                       total_tokens |-> SumTokens(analyses)]
    /\ result' = "analyses"
    /\ pc' = "complete"
    /\ UNCHANGED beside_annotator
    /\ UNCHANGED <<memory, progress_file, memo, launches, crashes,
                   run_history, first_input, same_input, clean_stops,
                   last_persisted, reference>>

\* process termination (section 5: cancellation is via process termination):
\* the memory of the process is gone, the disk stays as it is
Crash ==
    /\ pc \in {"resuming", "processing", "analyzed", "writing"}
    /\ crashes < MaxCrashes
    /\ crashes' = crashes + 1
    /\ clean_stops' = (clean_stops /\ pc \in {"resuming", "processing"})
    /\ pc' = "idle"
    /\ lines' = <<>>
    /\ line_tokens' = <<>>
    /\ analyses' = <<>>
    /\ start_index' = 0
    /\ i' = 0
    /\ characters_seen' = {}
    /\ store_at_launch' = "none"
    /\ len_at_launch' = 0
    /\ persisted_before' = 0
    /\ passed' = <<>>
    /\ defaulted' = {}
    /\ ext_failed' = {}
    /\ processed' = <<>>
    /\ UNCHANGED beside_annotator
    /\ UNCHANGED <<disk, result, memo, launches,
                   first_input, same_input, last_persisted, reference>>

Next ==
    \/ \E input \in Inputs : Launch(input)
    \/ LoadProgress
    \/ AnalyzeLine
    \/ OpenProgress
    \/ DumpProgress
    \/ Finish
    \/ Crash

Spec == Init /\ [][Next]_vars

\* ------------------------------------------- relaunching on the same input
\* every launch after the first reads the input file of the first
Relaunch(input) ==
    /\ launches > 0 => input = first_input
    /\ Launch(input)

RestartNext ==
    \/ \E input \in Inputs : Relaunch(input)
    \/ LoadProgress
    \/ AnalyzeLine
    \/ OpenProgress
    \/ DumpProgress
    \/ Finish
    \/ Crash

\* the process is started again while launches remain, every statement of a
\* launch is eventually executed (the analyzer call returns or raises), and
\* nothing obliges a termination to happen
RestartFairness ==
    /\ WF_vars(\E input \in Inputs : Relaunch(input))
    /\ WF_vars(LoadProgress)
    /\ WF_vars(AnalyzeLine)
    /\ WF_vars(OpenProgress)
    /\ WF_vars(DumpProgress)
    /\ WF_vars(Finish)

RestartSpec == Init /\ [][RestartNext]_vars /\ RestartFairness

\* --------------------------------------- the context window on longer scripts
\* a script of n lines, each line's text being its own index
Numbered(n) == [j \in 1..n |-> j - 1]

\* analyze_script line 152: the call with lines, i and len(lines)
ContextInit ==
    /\ AnnotatorAtRest
    /\ TrimmerAtRest
    /\ GeneratorAtRest
    /\ ctx_pc = "call"
    /\ \E n \in 1..MaxContextLines :
        /\ ctx_lines = Numbered(n)
        /\ ctx_index \in 0..(n - 1)
    /\ ctx_window = <<>>
    /\ ctx_highlight = <<>>

\* lines 35-37: start_idx, end_idx and the slice
BuildContext ==
    /\ ctx_pc = "call"
    /\ ctx_window' = ContextWindow(ctx_lines, ctx_index, Len(ctx_lines))
    /\ ctx_pc' = "built"
    /\ UNCHANGED <<ctx_lines, ctx_index, ctx_highlight>>
    /\ UNCHANGED beside_context

ContextNext == BuildContext

ContextSpec == ContextInit /\ [][ContextNext]_vars

\* ------------------------------------------- the marker on the current line
\* A text is the sequence of its characters; no line holds a line break
\* (splitlines) and no line is empty (line.strip()).
Newline == "\n"
Marker == "[CURRENT LINE]: "
MarkTexts == {<<"x">>, <<"y">>, <<"x", "y">>}

\* "\n".join(window)
RECURSIVE JoinLines(_)
JoinLines(window) ==
    IF Len(window) = 0 THEN <<>>
    ELSE IF Len(window) = 1 THEN window[1]
    ELSE window[1] \o <<Newline>> \o JoinLines(Tail(window))

\* text starts with the characters of sub
StartsWith(text, sub) ==
    /\ Len(text) >= Len(sub)
    /\ SubSeq(text, 1, Len(sub)) = sub

\* text.replace(old, new): every occurrence of old, left to right, without
\* overlap; old is never empty here
RECURSIVE Replace(_, _, _)
Replace(text, old, new) ==
    IF Len(text) = 0 THEN <<>>
    ELSE IF StartsWith(text, old)
         THEN new \o Replace(SubSeq(text, Len(old) + 1, Len(text)), old, new)
         ELSE <<Head(text)>> \o Replace(Tail(text), old, new)

\* analyze_script line 152 on a short script of the texts above
MarkInit ==
    /\ AnnotatorAtRest
    /\ TrimmerAtRest
    /\ GeneratorAtRest
    /\ ctx_pc = "call"
    /\ \E n \in 1..MaxMarkLines :
        /\ ctx_lines \in [1..n -> MarkTexts]
        /\ ctx_index \in 0..(n - 1)
    /\ ctx_window = <<>>
    /\ ctx_highlight = <<>>

\* lines 37 and 40: join the window, then
\* context.replace(line, f"[CURRENT LINE]: {line}") with line = lines[i]
HighlightCurrent ==
    /\ ctx_pc = "built"
    /\ LET line == ctx_lines[ctx_index + 1]
           context == JoinLines(ctx_window)
       IN  ctx_highlight' = Replace(context, line, <<Marker>> \o line)
    /\ ctx_pc' = "marked"
    /\ UNCHANGED <<ctx_lines, ctx_index, ctx_window>>
    /\ UNCHANGED beside_context

MarkNext == BuildContext \/ HighlightCurrent

MarkSpec == MarkInit /\ [][MarkNext]_vars

\* ------------------------------------------------ trim_silence.py: the audio
\* An AudioSegment is a sequence of stretches [dur |-> ms, power |-> p], p the
\* mean square of the samples of the stretch; len(audio) is in milliseconds.
ChunkSize == 10
Loud == 100
Quiet == 1
Zero == 0

Stretch(d, p) == [dur |-> d, power |-> p]

RECURSIVE AudioLen(_)
AudioLen(seg) ==
    IF seg = <<>> THEN 0 ELSE Head(seg).dur + AudioLen(Tail(seg))

\* the sum of the squared samples of audio between the offsets a and b
RECURSIVE Energy(_, _, _)
Energy(seg, a, b) ==
    IF seg = <<>> THEN 0
    ELSE LET s == Head(seg)
             lo == Max(a, 0)
             hi == Min(b, s.dur)
         IN  (IF hi > lo THEN (hi - lo) * s.power ELSE 0)
                 + Energy(Tail(seg), a - s.dur, b - s.dur)

\* audio[a:b], both ends clamped to the buffer
RECURSIVE Slice(_, _, _)
Slice(seg, a, b) ==
    IF seg = <<>> THEN <<>>
    ELSE LET s == Head(seg)
             lo == Max(a, 0)
             hi == Min(b, s.dur)
             rest == Slice(Tail(seg), a - s.dur, b - s.dur)
         IN  IF hi > lo THEN <<Stretch(hi - lo, s.power)>> \o rest ELSE rest

\* 10 ^ (db / 10) as a fraction <<numerator, denominator>>
PowerRatio(db) ==
    CASE db = -50 -> <<1, 100000>>
      [] db = -10 -> <<1, 10>>

\* chunk.dBFS < audio.dBFS + silence_threshold_db.  The dBFS of a segment is
\* 10 * log10 of its mean power, and -inf when the power is 0, so a chunk of
\* a buffer whose own power is 0 is never below the threshold (-inf < -inf
\* is false).  Ek / lenk < (E / len) * num / den, in integers.
BelowThreshold(chunk, seg, silence_threshold_db) ==
    LET Ek == Energy(chunk, 0, AudioLen(chunk))
        E == Energy(seg, 0, AudioLen(seg))
        num == PowerRatio(silence_threshold_db)[1]
        den == PowerRatio(silence_threshold_db)[2]
    IN  /\ E > 0
        /\ Ek * den <= (E * AudioLen(chunk) * num - 1) \div AudioLen(seg)

\* a chunk that is always found silent
IsSilentAlways(seg, offset, silence_threshold_db) == TRUE

\* lines 38-39: chunk = audio[i:i+chunk_size]; chunk.dBFS < silence_threshold
IsSilent(seg, offset, silence_threshold_db) ==
    BelowThreshold(Slice(seg, offset, offset + ChunkSize), seg,
                   silence_threshold_db)

\* a scan that visits every chunk start below len(audio)
ScanOffsetsToEnd(seg) ==
    {k * ChunkSize : k \in 0..((AudioLen(seg) - 1) \div ChunkSize)}

\* line 37: the offsets i of range(0, len(audio) - chunk_size, chunk_size),
\* the multiples of chunk_size below len(audio) - chunk_size
ScanOffsets(seg) ==
    {k * ChunkSize :
        k \in 0..((AudioLen(seg) - ChunkSize - 1) \div ChunkSize)}

\* ------------------------------------------------ trim_silence.py: the files
InputDir == "in"
OtherDir == "out"
\* os.path.join(args.input_dir, 'trimmed')
DefaultOutputDir == "in/trimmed"
Dirs == {InputDir, DefaultOutputDir, OtherDir}

\* a path is a directory and the number of a file name (f1.wav, f2.wav, ...)
Paths == [dir : Dirs, name : 1..MaxFiles]
InPath(k) == [dir |-> InputDir, name |-> k]

Absent == [kind |-> "absent", seg |-> <<>>]
Undecodable == [kind |-> "undecodable", seg |-> <<>>]
Partial == [kind |-> "partial", seg |-> <<>>]
AudioFile(seg) == [kind |-> "audio", seg |-> seg]

\* a directory that holds the given contents as its files 1..n, nothing else
Holding(contents) ==
    [p \in Paths |-> IF p.dir = InputDir /\ p.name <= Len(contents)
                     THEN contents[p.name] ELSE Absent]

\* lines 93-96: the files of the input directory that match an extension
Glob(files) ==
    LET present == {k \in 1..MaxFiles : files[InPath(k)].kind # "absent"}
    IN  [j \in 1..Cardinality(present) |->
            InPath(CHOOSE k \in present :
                       Cardinality({m \in present : m < k}) = j - 1)]

\* line 89: args.output_dir if args.output_dir else input_dir/trimmed
OutputDir == IF args.output_dir # None THEN args.output_dir ELSE DefaultOutputDir

\* lines 55-57: basename, splitext and join give the same file name back
\* under output_dir
OutputPath(output_dir, file_path) == [dir |-> output_dir, name |-> file_path.name]

\* the buffers the scan is tried on: up to MaxSegs stretches of 5, 10 or 20 ms,
\* each loud, quiet or digitally silent
Durations == {5, 10, 20}
Powers == {Zero, Quiet, Loud}
Stretches == [dur : Durations, power : Powers]
Clips == UNION {[1..n -> Stretches] : n \in 1..MaxSegs}
ThresholdsDb == {-50, -10}
MinDurations == {0, 10, 15, 20}

\* [2000 ms loud][1500 ms silent][2000 ms loud]
ExampleClip == <<Stretch(2000, Loud), Stretch(1500, Zero), Stretch(2000, Loud)>>

\* a silent chunk, a loud chunk, two silent chunks, a loud chunk
ResetClip == <<Stretch(10, Zero), Stretch(10, Loud), Stretch(20, Zero),
               Stretch(10, Loud)>>

\* the files of a batch: one that does not decode, one without silence, one
\* with a silent run in the middle, one that is digital silence throughout
Catalog == {Undecodable,
            AudioFile(<<Stretch(40, Loud)>>),
            AudioFile(<<Stretch(10, Loud), Stretch(20, Zero), Stretch(20, Loud)>>),
            AudioFile(<<Stretch(40, Zero)>>)}
Batches == UNION {[1..n -> Catalog] : n \in 0..MaxFiles}

TrimmerStart(a, e, files) ==
    /\ tpc = "main"
    /\ args = a
    /\ env = e
    /\ fs = files
    /\ fs0 = files
    /\ audio_files = <<>>
    /\ file_index = 0
    /\ audio = <<>>
    /\ chunk_start = 0
    /\ silence_starts = <<>>
    /\ processed_count = 0
    /\ trimmed_count = 0
    /\ exit_code = -1
    /\ uncaught = FALSE
    /\ results = <<>>

\* one clip in the input directory, default output directory
OneClipStart ==
    \/ \E clip \in Clips \cup {ResetClip}, db \in ThresholdsDb,
          ms \in MinDurations :
        TrimmerStart([output_dir |-> None, silence_threshold |-> db,
                      min_silence_duration |-> ms],
                     [input_is_dir |-> TRUE, makedirs_ok |-> TRUE],
                     Holding(<<AudioFile(clip)>>))
    \/ TrimmerStart([output_dir |-> None, silence_threshold |-> -50,
                     min_silence_duration |-> 1000],
                    [input_is_dir |-> TRUE, makedirs_ok |-> TRUE],
                    Holding(<<AudioFile(ExampleClip)>>))

\* a batch of files, any output directory, any answer of the file system
BatchStart ==
    \E batch \in Batches, out \in {None, OtherDir, InputDir},
       is_dir \in BOOLEAN, mk \in BOOLEAN :
        TrimmerStart([output_dir |-> out, silence_threshold |-> -50,
                      min_silence_duration |-> 20],
                     [input_is_dir |-> is_dir, makedirs_ok |-> mk],
                     Holding(batch))

TrimInit ==
    /\ AnnotatorAtRest
    /\ ContextAtRest
    /\ GeneratorAtRest
    /\ (OneClipStart \/ BatchStart)

\* ------------------------------------------------- trim_silence.py: main
\* lines 84-86: the input directory must exist
CheckInputDir ==
    /\ tpc = "main"
    /\ IF env.input_is_dir
       THEN tpc' = "mkdir" /\ UNCHANGED exit_code
       ELSE tpc' = "exited" /\ exit_code' = 1
    /\ UNCHANGED <<args, env, fs, fs0, audio_files, file_index, audio,
                   chunk_start, silence_starts, processed_count,
                   trimmed_count, uncaught, results>>
    /\ UNCHANGED beside_trimmer

\* lines 89-90: os.makedirs(output_dir, exist_ok=True); when it raises nothing
\* catches the exception and the interpreter ends with status 1
MakeOutputDir ==
    /\ tpc = "mkdir"
    /\ IF env.makedirs_ok
       THEN tpc' = "glob" /\ UNCHANGED <<exit_code, uncaught>>
       ELSE tpc' = "exited" /\ exit_code' = 1 /\ uncaught' = TRUE
    /\ UNCHANGED <<args, env, fs, fs0, audio_files, file_index, audio,
                   chunk_start, silence_starts, processed_count,
                   trimmed_count, results>>
    /\ UNCHANGED beside_trimmer

\* lines 93-105: glob the input directory; no file, status 1
FindFiles ==
    /\ tpc = "glob"
    /\ audio_files' = Glob(fs)
    /\ IF Len(Glob(fs)) = 0
       THEN tpc' = "exited" /\ exit_code' = 1
       ELSE tpc' = "loop" /\ UNCHANGED exit_code
    /\ UNCHANGED <<args, env, fs, fs0, file_index, audio, chunk_start,
                   silence_starts, processed_count, trimmed_count, uncaught,
                   results>>
    /\ UNCHANGED beside_trimmer

\* what detect_and_trim_silence hands back to the loop, lines 115-116:
\* result is None or the output path, and a path counts as trimmed; raised
\* names the statement that raised inside the try, "no" when none did
Returned(ret, trim_point, scanned, raised) ==
    /\ results' = Append(results, [file |-> audio_files[file_index].name,
                                   ret |-> ret, trim_point |-> trim_point,
                                   scanned |-> scanned, raised |-> raised])
    /\ trimmed_count' = IF ret # None THEN trimmed_count + 1 ELSE trimmed_count
    /\ tpc' = "loop"
    /\ audio' = <<>>
    /\ chunk_start' = 0
    /\ silence_starts' = <<>>

\* a loop that a file which does not decode ends with a traceback
StartFileDecodeUncaught ==
    /\ tpc = "loop"
    /\ file_index < Len(audio_files)
    /\ file_index' = file_index + 1
    /\ processed_count' = processed_count + 1
    /\ LET content == fs[audio_files[file_index + 1]]
       IN  IF content.kind = "audio"
           THEN /\ audio' = content.seg
                /\ tpc' = "scan"
                /\ UNCHANGED <<exit_code, uncaught>>
           ELSE /\ tpc' = "exited"
                /\ exit_code' = 1
                /\ uncaught' = TRUE
                /\ UNCHANGED audio
    /\ UNCHANGED <<args, env, fs, fs0, audio_files, chunk_start,
                   silence_starts, trimmed_count, results>>
    /\ UNCHANGED beside_trimmer

\* lines 107-110 and 23-35: take the next file, count it, decode it; a file
\* that does not decode raises inside the try and None comes back
StartFile ==
    /\ tpc = "loop"
    /\ file_index < Len(audio_files)
    /\ file_index' = file_index + 1
    /\ processed_count' = processed_count + 1
    /\ LET content == fs[audio_files[file_index + 1]]
       IN  IF content.kind = "audio"
           THEN /\ audio' = content.seg
                /\ chunk_start' = 0
                /\ silence_starts' = <<>>
                /\ tpc' = "scan"
                /\ UNCHANGED <<trimmed_count, results>>
           ELSE /\ results' = Append(results,
                        [file |-> audio_files[file_index + 1].name,
                         ret |-> None, trim_point |-> -1, scanned |-> 0,
                         raised |-> "decode"])
                /\ UNCHANGED <<tpc, audio, chunk_start, silence_starts,
                               trimmed_count>>
    /\ UNCHANGED <<args, env, fs, fs0, audio_files, exit_code, uncaught>>
    /\ UNCHANGED beside_trimmer

\* a cut at the chunk that reached the threshold
TrimPointAtTrigger(run) == run[Len(run)]

\* line 48: trim_point = silence_starts[0]
TrimPoint(run) == run[1]

\* a run that is never reset
NextRunNoReset(run, silent, offset) ==
    IF silent THEN Append(run, offset) ELSE run

\* lines 39-43: a silent chunk joins the run, any other chunk empties it
NextRun(run, silent, offset) ==
    IF silent THEN Append(run, offset)
    ELSE IF Len(run) > 0 THEN <<>> ELSE run

\* what trimmed_audio.export can do: write the file, raise before the output
\* file is opened, or raise after it was opened for writing
ExportOutcomes == {"written", "raised", "raised_open"}

\* lines 37-63: one turn of the loop over the chunks
ScanChunk ==
    /\ tpc = "scan"
    /\ chunk_start \in ScanOffsets(audio)
    /\ LET silent == IsSilent(audio, chunk_start, args.silence_threshold)
           run == NextRun(silence_starts, silent, chunk_start)
           scanned == chunk_start \div ChunkSize + 1
           output_path == OutputPath(OutputDir, audio_files[file_index])
       IN  IF Len(run) * ChunkSize < args.min_silence_duration
           THEN /\ silence_starts' = run
                /\ chunk_start' = chunk_start + ChunkSize
                /\ UNCHANGED <<tpc, audio, fs, trimmed_count, results>>
           ELSE IF Len(run) = 0
           THEN \* silence_starts[0] raises IndexError, caught on line 69
                /\ Returned(None, -1, scanned, "index")
                /\ UNCHANGED fs
           ELSE \E outcome \in ExportOutcomes :
                CASE outcome = "written" ->
                        /\ fs' = [fs EXCEPT ![output_path] =
                                    AudioFile(Slice(audio, 0, TrimPoint(run)))]
                        /\ Returned("path", TrimPoint(run), scanned, "no")
                  [] outcome = "raised" ->
                        /\ UNCHANGED fs
                        /\ Returned(None, TrimPoint(run), scanned, "export")
                  [] outcome = "raised_open" ->
                        /\ fs' = [fs EXCEPT ![output_path] = Partial]
                        /\ Returned(None, TrimPoint(run), scanned, "export")
    /\ UNCHANGED <<args, env, fs0, audio_files, file_index, processed_count,
                   exit_code, uncaught>>
    /\ UNCHANGED beside_trimmer

\* lines 65-67: the loop ran out of chunks, no silence found
EndScan ==
    /\ tpc = "scan"
    /\ chunk_start \notin ScanOffsets(audio)
    /\ Returned(None, -1, chunk_start \div ChunkSize, "no")
    /\ UNCHANGED <<args, env, fs, fs0, audio_files, file_index,
                   processed_count, exit_code, uncaught>>
    /\ UNCHANGED beside_trimmer

\* a batch that ends with status 1 when no file was trimmed
FinishBatchStrict ==
    /\ tpc = "loop"
    /\ file_index = Len(audio_files)
    /\ tpc' = "exited"
    /\ exit_code' = (IF trimmed_count = 0 THEN 1 ELSE 0)
    /\ UNCHANGED <<args, env, fs, fs0, audio_files, file_index, audio,
                   chunk_start, silence_starts, processed_count,
                   trimmed_count, uncaught, results>>
    /\ UNCHANGED beside_trimmer

\* lines 120-123: every file was taken, status 0
FinishBatch ==
    /\ tpc = "loop"
    /\ file_index = Len(audio_files)
    /\ tpc' = "exited"
    /\ exit_code' = 0
    /\ UNCHANGED <<args, env, fs, fs0, audio_files, file_index, audio,
                   chunk_start, silence_starts, processed_count,
                   trimmed_count, uncaught, results>>
    /\ UNCHANGED beside_trimmer

TrimNext ==
    \/ CheckInputDir
    \/ MakeOutputDir
    \/ FindFiles
    \/ StartFile
    \/ ScanChunk
    \/ EndScan
    \/ FinishBatch

TrimSpec == TrimInit /\ [][TrimNext]_vars

\* ------------------------------- interactive_audio_generation.py: the lines
\* A line of the script is a record; audio_file is the number k of the file
\* output_dir/line{k}.mp3, or NoAudioFile when the line has no such key.
NoAudioFile == -1
ScriptLine(af, nr, vi) ==
    [audio_file |-> af, needs_regeneration |-> nr, voice_instructions |-> vi]

\* line 34 and line 77: f"{output_dir}/line{i+1}.mp3"
FileOfLine(line_index) == line_index + 1

\* the 1-based position Python's lines[k] reads, 0 when it raises IndexError:
\* a negative k counts from the end of the list
PyIndex(n, k) ==
    IF 0 <= k /\ k < n THEN k + 1
    ELSE IF -n <= k /\ k < 0 THEN n + k + 1
    ELSE 0

\* lines 33-52: what validate_audio_files makes of one line
ValidatedLine(line, line_index, dir) ==
    IF line.audio_file # NoAudioFile
    THEN IF line.audio_file \notin dir
         THEN [line EXCEPT !.audio_file = NoAudioFile,
                           !.needs_regeneration = TRUE]
         ELSE line
    ELSE IF FileOfLine(line_index) \in dir
         THEN [line EXCEPT !.audio_file = FileOfLine(line_index),
                           !.needs_regeneration = FALSE]
         ELSE [line EXCEPT !.needs_regeneration = TRUE]

validate_audio_files(ls, dir) ==
    [j \in 1..Len(ls) |-> ValidatedLine(ls[j], j - 1, dir)]

\* lines 30-56: lines_updated is set on every branch but the one that keeps
\* a line whose file exists
LinesUpdated(ls, dir) ==
    \E j \in 1..Len(ls) :
        ls[j].audio_file = NoAudioFile \/ ls[j].audio_file \notin dir

\* what the speech call and stream_to_file can do
SpeechOutcomes == {"ok", "raised", "raised_partial"}

\* lines 70-103: generate_audio_for_line; ret is "raised" when the exception
\* is one the method does not catch
generate_audio_for_line(ls, file, dir, line_index, outcome) ==
    IF line_index >= Len(ls)
    THEN [ret |-> "False", lines |-> ls, file |-> file, dir |-> dir,
          made |-> FALSE]
    ELSE IF PyIndex(Len(ls), line_index) = 0
    THEN [ret |-> "raised", lines |-> ls, file |-> file, dir |-> dir,
          made |-> FALSE]
    ELSE LET at == PyIndex(Len(ls), line_index)
             temp_file == FileOfLine(line_index)
             lines1 == [ls EXCEPT ![at].audio_file = temp_file,
                                     ![at].needs_regeneration = FALSE]
         IN  CASE outcome = "ok" ->
                    [ret |-> "True", lines |-> lines1, file |-> lines1,
                     dir |-> dir \cup {temp_file}, made |-> TRUE]
               [] outcome = "raised" ->
                    [ret |-> "False", lines |-> ls, file |-> file,
                     dir |-> dir, made |-> FALSE]
               [] outcome = "raised_partial" ->
                    [ret |-> "False", lines |-> ls, file |-> file,
                     dir |-> dir \cup {temp_file}, made |-> FALSE]

\* lines 228-234: batch_generation from index k on; st holds the lines, the
\* saved file, the directory and the indices generated so far
RECURSIVE batch_generation(_, _, _)
batch_generation(k, st, outcomes) ==
    IF k >= Len(st.lines) THEN st
    ELSE IF st.lines[k + 1].audio_file # NoAudioFile
    THEN batch_generation(k + 1, st, outcomes)
    ELSE LET g == generate_audio_for_line(st.lines, st.file, st.dir, k,
                                          outcomes[k])
         IN  batch_generation(k + 1,
                [lines |-> g.lines, file |-> g.file, dir |-> g.dir,
                 made |-> IF g.made THEN st.made \cup {k} ELSE st.made],
                outcomes)

\* ------------------------------ interactive_audio_generation.py: the menu
\* the script files a generator is constructed on: up to MaxGenLines lines,
\* each with or without an audio_file key, and any of their files on disk
RawLines ==
    UNION {{ls \in [1..n -> [audio_file : {NoAudioFile} \cup (1..n),
                             needs_regeneration : BOOLEAN,
                             voice_instructions : {"old"}]] :
                \A j \in 1..n :
                    ls[j].audio_file \in {NoAudioFile, FileOfLine(j - 1)}} :
           n \in 0..MaxGenLines}

\* the indices a caller may pass: every valid one, the first past the end,
\* and the negative ones down to one before the start
CallIndices(n) == (-(n + 1))..n

\* lines 11-25: the state after StoryGenerator(json_file, output_dir)
GenInit ==
    /\ AnnotatorAtRest
    /\ ContextAtRest
    /\ TrimmerAtRest
    /\ gpc = "menu"
    /\ \E raw \in RawLines :
        /\ audio_dir \in SUBSET (1..Len(raw))
        /\ script_data = validate_audio_files(raw, audio_dir)
        /\ script_file = IF LinesUpdated(raw, audio_dir)
                         THEN validate_audio_files(raw, audio_dir) ELSE raw
    /\ op_count = 0
    /\ last_op = NoOp
    /\ prev_op = NoOp
    /\ generated = {}

\* the bookkeeping of one menu choice or call
Called(op, line_index, ret, all_ok, made) ==
    /\ op_count' = op_count + 1
    /\ prev_op' = last_op
    /\ last_op' = [op |-> op, index |-> line_index, ret |-> ret,
                   all_ok |-> all_ok]
    /\ generated' = made
    /\ gpc' = IF ret = "raised" THEN "crashed" ELSE "menu"

\* lines 118-140 (menu choice 4, lines 329-337): mark_for_regeneration; the
\* question about the existing file is put only when the file exists
MarkForRegeneration ==
    /\ gpc = "menu"
    /\ op_count < MaxOps
    /\ \E line_index \in CallIndices(Len(script_data)),
          new_instructions \in {None, "new"}, choice \in {"y", "n"} :
        LET n == Len(script_data)
            at == PyIndex(n, line_index)
        IN  IF line_index >= n
            THEN /\ Called("mark", line_index, "False", TRUE, {})
                 /\ UNCHANGED <<script_data, script_file, audio_dir>>
            ELSE IF at = 0
            THEN /\ Called("mark", line_index, "raised", TRUE, {})
                 /\ UNCHANGED <<script_data, script_file, audio_dir>>
            ELSE LET line == script_data[at]
                     instr == IF new_instructions \notin {None, ""}
                              THEN new_instructions
                              ELSE line.voice_instructions
                     asked == /\ line.audio_file # NoAudioFile
                              /\ line.audio_file \in audio_dir
                     delete == asked /\ choice = "y"
                     line1 == ScriptLine(
                                IF delete THEN NoAudioFile ELSE line.audio_file,
                                TRUE, instr)
                 IN  /\ asked \/ choice = "n"
                     /\ script_data' = [script_data EXCEPT ![at] = line1]
                     /\ script_file' = script_data'
                     /\ audio_dir' = IF delete
                                     THEN audio_dir \ {line.audio_file}
                                     ELSE audio_dir
                     /\ Called("mark", line_index, "True", TRUE, {})
    /\ UNCHANGED <<annotator_vars, ctx_vars, trim_vars>>

\* lines 70-103: one call of generate_audio_for_line
GenerateAudioForLine ==
    /\ gpc = "menu"
    /\ op_count < MaxOps
    /\ \E line_index \in CallIndices(Len(script_data)),
          outcome \in SpeechOutcomes :
        LET g == generate_audio_for_line(script_data, script_file, audio_dir,
                                         line_index, outcome)
        IN  /\ script_data' = g.lines
            /\ script_file' = g.file
            /\ audio_dir' = g.dir
            /\ Called("generate", line_index, g.ret, outcome = "ok",
                      IF g.made THEN {line_index} ELSE {})
    /\ UNCHANGED <<annotator_vars, ctx_vars, trim_vars>>

\* lines 326-327 (menu choice 3): batch_generation
BatchGeneration ==
    /\ gpc = "menu"
    /\ op_count < MaxOps
    /\ \E outcomes \in [0..(Len(script_data) - 1) -> SpeechOutcomes] :
        LET st == batch_generation(0,
                    [lines |-> script_data, file |-> script_file,
                     dir |-> audio_dir, made |-> {}], outcomes)
        IN  /\ script_data' = st.lines
            /\ script_file' = st.file
            /\ audio_dir' = st.dir
            /\ Called("batch", 0, "none",
                      \A k \in DOMAIN outcomes : outcomes[k] = "ok", st.made)
    /\ UNCHANGED <<annotator_vars, ctx_vars, trim_vars>>

\* lines 349-350 (menu choice 8): validate_audio_files, saving when a line
\* was updated
ValidateAudioFiles ==
    /\ gpc = "menu"
    /\ op_count < MaxOps
    /\ script_data' = validate_audio_files(script_data, audio_dir)
    /\ script_file' = IF LinesUpdated(script_data, audio_dir)
                      THEN script_data' ELSE script_file
    /\ Called("validate", 0, "none", TRUE, {})
    /\ UNCHANGED audio_dir
    /\ UNCHANGED <<annotator_vars, ctx_vars, trim_vars>>

GenNext ==
    \/ MarkForRegeneration
    \/ GenerateAudioForLine
    \/ BatchGeneration
    \/ ValidateAudioFiles

GenSpec == GenInit /\ [][GenNext]_vars

\* ------------------------------------------------------------------ claims
Running == pc \in {"processing", "analyzed", "writing"}
Loaded == store_at_launch # "none"

IsPrefix(s, t) == Len(s) <= Len(t) /\ \A j \in 1..Len(s) : s[j] = t[j]

\* the non-empty speaker labels of the first n records
SpeakersOf(recs, n) == {recs[m].character : m \in 1..n} \ {None}

\* C1: a run interrupted after a persisted line and restarted on the same
\* input ends with the record sequence of the uninterrupted run with the same
\* analyzer, having started where the store ended
C1_ResumeIsIdempotent ==
    (same_input /\ clean_stops) =>
        /\ Loaded => start_index = persisted_before
        /\ pc = "complete" => analyses = ref_analyses

\* C2: a run that found no progress store holds one record per input line, in
\* input order, in the store after every write and in the final output
C2_OneRecordPerLineInOrder ==
    store_at_launch = "absent" =>
        /\ progress_file.state = "valid" =>
              /\ Len(progress_file.analyses) <= Len(lines)
              /\ \A j \in 1..Len(progress_file.analyses) :
                    progress_file.analyses[j].original_text = lines[j]
        /\ pc = "complete" =>
              /\ json_output.total_lines = Len(lines)
              /\ Len(json_output.lines) = Len(lines)
              /\ Len(progress_file.analyses) = Len(lines)
              /\ \A j \in 1..Len(lines) :
                    json_output.lines[j].original_text = lines[j]

C2_Witness ==
    /\ store_at_launch = "absent"
    /\ pc = "complete"
    /\ Len(lines) = 3
    /\ lines[1] = lines[3]
    /\ json_output.total_lines = 3

\* C3: in a run that found no progress store, the set handed to the analyzer
\* for line j is the set of non-empty speaker labels of records 0..j-1
C3_SeenIsSpeakersOfPriorRecords ==
    store_at_launch = "absent" =>
        \A j \in 1..Len(passed) : passed[j] = SpeakersOf(analyses, j - 1)

\* C4: a failed analysis of line k leaves the default record, with the text
\* and token count of line k, at index k, and the run goes on: it can take
\* its next step, and when it completes every later line has its record in
\* the store
C4_FailureYieldsDefaultAndContinues ==
    \A k \in defaulted :
        /\ k + 1 <= Len(analyses)
        /\ analyses[k + 1] =
              [is_dialogue |-> "False", character |-> None, emotion |-> "neutral",
               intensity |-> "5", pause_after |-> "1.0",
               voice_instructions |-> "Read in a natural, clear voice.",
               is_scene_transition |-> "False", is_action |-> "False",
               sound_effects |-> <<>>,
               original_text |-> lines[k + 1], token_count |-> TokenCount(lines[k + 1])]
        /\ pc \in {"processing", "analyzed", "writing", "complete"}
        /\ Running => ENABLED (AnalyzeLine \/ OpenProgress \/ DumpProgress \/ Finish)
        /\ pc = "complete" =>
              /\ Len(progress_file.analyses) = Len(lines)
              /\ \A j \in (k + 1)..(Len(lines) - 1) :
                    /\ \E m \in 1..Len(processed) : processed[m] = j
                    /\ progress_file.analyses[j + 1].original_text = lines[j + 1]

C4_Witness ==
    /\ pc = "complete"
    /\ 0 \in ext_failed
    /\ Len(lines) = 3
    /\ Len(progress_file.analyses) = 3

\* C5: a line gets the default record only when its own external call failed
C5_FailuresAreIsolated ==
    \A j \in defaulted : j \in ext_failed

\* C6: a launch on the same input recovers all the records persisted before
\* it but at most one
C6_AtMostOneLineLost ==
    (same_input /\ Loaded) => start_index >= persisted_before - 1

\* C7: over runs, interruptions and restarts on one input, every persisted
\* state of the store extends the one before it
C7_StoreIsAppendOnly ==
    [][same_input' => IsPrefix(last_persisted, last_persisted')]_vars

\* C8: a launch that finds a store longer than the input, or a malformed one,
\* does not go on: it neither restarts from an empty store nor completes, and
\* no output has another record count than the input has lines
C8_ResumeInconsistencyIsFatal ==
    /\ store_at_launch = "malformed" => ~Running /\ pc # "complete"
    /\ (Loaded /\ len_at_launch > Len(lines)) => ~Running /\ pc # "complete"
    /\ pc = "complete" => json_output.total_lines = Len(lines)

\* C9: the loop starts at the length of the loaded store, visits the indices
\* in steps of one, and the run completes only with i = number of lines
C9_RunStateMachine ==
    /\ Loaded => start_index = len_at_launch
    /\ \A j \in 1..Len(processed) : processed[j] = start_index + j - 1
    /\ pc = "complete" => i = Len(lines)

\* C10: in a run that loaded r > 0 records, the set handed to the analyzer for
\* line j holds the speaker labels of all records before j, loaded ones included
C10_ResumedSeenCoversLoadedRecords ==
    (store_at_launch = "loaded" /\ start_index > 0) =>
        \A j \in 1..Len(passed) :
            SpeakersOf(analyses, start_index + j - 1) \subseteq passed[j]

\* the indices lo..hi of the script, as the lines of Numbered
Indices(lo, hi) == [j \in 1..(hi - lo + 1) |-> lo + j - 1]

\* C20 as stated: the window is the lines max(0, i-5) .. min(N-1, i+6)
C20_WindowFiveBeforeSixAfter ==
    ctx_pc = "built" =>
        ctx_window = Indices(Max(0, ctx_index - 5),
                             Min(Len(ctx_lines) - 1, ctx_index + 6))

\* C20 as amended: the window is the lines max(0, i-5) .. min(N-1, i+5), five
\* before and five after, clamped to the script, and it holds line i
C20_WindowFiveBeforeFiveAfter ==
    ctx_pc = "built" =>
        /\ ctx_window = Indices(Max(0, ctx_index - 5),
                                Min(Len(ctx_lines) - 1, ctx_index + 5))
        /\ \E j \in 1..Len(ctx_window) : ctx_window[j] = ctx_index

\* a line with five lines before it and more than five after it
C20_Witness ==
    /\ ctx_pc = "built"
    /\ ctx_index = 5
    /\ Len(ctx_lines) = 13
    /\ Len(ctx_window) = 11

\* ----------------------------------------------------- claims on the trimmer
\* the buffer of the first input file as main found it
Clip == fs0[InPath(1)].seg

\* detect_and_trim_silence has returned for the only file of the directory
OneClipDone ==
    /\ tpc \in {"loop", "exited"}
    /\ Len(audio_files) = 1
    /\ Len(results) = 1
    /\ fs0[InPath(1)].kind = "audio"

\* what the output directory holds under the name of the first input file
Output == fs[OutputPath(OutputDir, InPath(1))]

\* the call returned the output path and the file there is seg[:cut]
TrimmedAt(cut) ==
    /\ results[1].ret = "path"
    /\ Output = AudioFile(Slice(Clip, 0, cut))
    /\ AudioLen(Output.seg) = cut

\* [loud for T ms][digital silence for exactly min_silence_duration ms][loud],
\* under a negative threshold, for which the loud level is not silence
LoudSilentLoud ==
    /\ Len(Clip) = 3
    /\ Clip[1].power = Loud
    /\ Clip[2].power = Zero
    /\ Clip[3].power = Loud
    /\ Clip[2].dur = args.min_silence_duration
    /\ args.silence_threshold < 0

\* C11 as stated: a silent run of exactly the minimum duration that starts at
\* any offset T after a loud part is cut at T
C11_ExactRunIsCutAtItsStart ==
    (OneClipDone /\ LoudSilentLoud /\ results[1].raised # "export")
        => TrimmedAt(Clip[1].dur)

\* C11 as amended: when T and the minimum duration are whole multiples of the
\* 10 ms chunk, a silent run of exactly the minimum duration that starts at T
\* after a loud part is cut at T; and the example [2000 loud][1500 silent]
\* [2000 loud] at -50 dB, 1000 ms is cut to exactly 2000 ms
C11_AlignedExactRunIsCutAtItsStart ==
    /\ (/\ OneClipDone
        /\ LoudSilentLoud
        /\ Clip[1].dur % ChunkSize = 0
        /\ args.min_silence_duration % ChunkSize = 0
        /\ results[1].raised # "export")
            => TrimmedAt(Clip[1].dur)
    /\ (OneClipDone /\ Clip = ExampleClip /\ results[1].raised # "export")
            => (TrimmedAt(2000) /\ AudioLen(Output.seg) = 2000)

\* [20 ms loud][20 ms silent][loud] with a minimum of 20 ms, cut at 20
C11_Witness ==
    /\ OneClipDone
    /\ LoudSilentLoud
    /\ Clip[1].dur = 20
    /\ args.min_silence_duration = 20
    /\ TrimmedAt(20)

\* every sample of the buffer is zero
DigitalSilence == \A k \in 1..Len(Clip) : Clip[k].power = Zero

\* C12: a buffer that is silent for its entire duration, and longer than the
\* minimum duration, is cut at offset 0 and the output is the empty prefix
C12_AllSilentTrimsToEmpty ==
    (/\ OneClipDone
     /\ DigitalSilence
     /\ args.min_silence_duration > 0
     /\ args.min_silence_duration % ChunkSize = 0
     /\ AudioLen(Clip) > args.min_silence_duration + ChunkSize
     /\ results[1].raised # "export")
        => /\ TrimmedAt(0)
           /\ results[1].trim_point = 0

\* C13: a buffer shorter than one 10 ms chunk gives None and no file is
\* written, whatever the threshold and the minimum duration
C13_ShorterThanAChunkIsNeverTrimmed ==
    (OneClipDone /\ AudioLen(Clip) < ChunkSize)
        => /\ results[1].ret = None
           /\ results[1].scanned = 0
           /\ fs = fs0
           /\ trimmed_count = 0

\* a 5 ms buffer, scanned for a minimum duration of 0 ms
C13_Witness ==
    /\ OneClipDone
    /\ AudioLen(Clip) = 5
    /\ args.min_silence_duration = 0
    /\ results[1].ret = None

\* C14: every successful trim leaves one new file under the input's name in
\* the output directory and leaves the input file as it was, for every
\* output directory the command line accepts
C14_TrimWritesNewFileAndKeepsInput ==
    \A j \in 1..Len(results) :
        results[j].ret = "path" =>
            LET file_path == InPath(results[j].file)
                output_path == OutputPath(OutputDir, file_path)
            IN  /\ fs[output_path].kind = "audio"
                /\ fs0[output_path] = Absent
                /\ fs[file_path] = fs0[file_path]

\* how many of the first n results are an output path
RECURSIVE PathsReturned(_)
PathsReturned(n) ==
    IF n = 0 THEN 0
    ELSE PathsReturned(n - 1) + (IF results[n].ret = "path" THEN 1 ELSE 0)

\* C15: a file that does not decode, or whose processing raises, gives None
\* for that file only: it is counted as processed and not as trimmed, the
\* loop takes every file of the batch in turn, and main ends only after the
\* last one
C15_FailedFileIsIsolated ==
    /\ \A j \in 1..Len(results) :
        /\ results[j].file = audio_files[j].name
        /\ results[j].raised # "no" => results[j].ret = None
        /\ fs0[audio_files[j]].kind = "undecodable"
              => results[j].raised = "decode"
    /\ processed_count = file_index
    /\ Len(results) = (IF tpc = "scan" THEN file_index - 1 ELSE file_index)
    /\ trimmed_count = PathsReturned(Len(results))
    /\ (tpc = "exited" /\ Len(audio_files) > 0)
          => /\ exit_code = 0
             /\ Len(results) = Len(audio_files)
             /\ processed_count = Len(audio_files)

\* a batch whose first file does not decode and whose second file is trimmed
C15_Witness ==
    /\ tpc = "exited"
    /\ Len(audio_files) = 2
    /\ fs0[InPath(1)] = Undecodable
    /\ results[1].ret = None
    /\ results[2].ret = "path"
    /\ processed_count = 2
    /\ trimmed_count = 1

\* the input directory is missing, or no file of it matches an extension
MissingOrEmpty == ~env.input_is_dir \/ Len(Glob(fs0)) = 0

SilentAt(offset) == IsSilent(Clip, offset, args.silence_threshold)

\* the number of chunks whose total duration reaches the minimum duration
Need == (args.min_silence_duration + ChunkSize - 1) \div ChunkSize

\* the scanned offsets t at which Need consecutive silent chunks end
Triggers ==
    {t \in ScanOffsets(Clip) :
        \A k \in 0..(Need - 1) :
            t - k * ChunkSize >= 0 /\ SilentAt(t - k * ChunkSize)}

FirstTrigger == CHOOSE t \in Triggers : \A u \in Triggers : t <= u

\* the start of the earliest run of silent chunks that reaches the minimum
EarliestRunStart == FirstTrigger - (Need - 1) * ChunkSize

\* while a buffer is scanned, silence_starts is the unbroken run of silent
\* chunk offsets that ends just before the next chunk, empty after a chunk
\* that is not silent
RunIsCurrent ==
    (tpc = "scan" /\ file_index = 1) =>
        LET n == Len(silence_starts)
        IN  /\ \A j \in 1..n :
                /\ silence_starts[j] = chunk_start - (n - j + 1) * ChunkSize
                /\ SilentAt(silence_starts[j])
            /\ chunk_start - (n + 1) * ChunkSize >= 0
                  => ~SilentAt(chunk_start - (n + 1) * ChunkSize)

\* the scan stopped at the first offset where a run reached the minimum and
\* cut at the start of that run, or found no such run and returned None
CutAtEarliestRun ==
    (OneClipDone /\ args.min_silence_duration > 0
                 /\ results[1].raised # "export") =>
        IF Triggers # {}
        THEN /\ results[1].ret = "path"
             /\ results[1].trim_point = EarliestRunStart
             /\ results[1].scanned = FirstTrigger \div ChunkSize + 1
             /\ Output = AudioFile(Slice(Clip, 0, EarliestRunStart))
        ELSE /\ results[1].ret = None
             /\ results[1].raised = "no"

\* C17 as stated: the run is reset by any chunk that is not silent, the cut is
\* the start of the earliest run that reaches the minimum, and it is never
\* the offset of the chunk at which the minimum was reached
C17_CutIsRunStartNeverTrigger ==
    /\ RunIsCurrent
    /\ CutAtEarliestRun
    /\ (OneClipDone /\ args.min_silence_duration > 0
                    /\ results[1].ret = "path")
          => results[1].trim_point # FirstTrigger

\* C17 as amended: for a positive minimum duration, the run is reset by any
\* chunk that is not silent, the cut is the start of the earliest run that
\* reaches the minimum, and it differs from the offset of the chunk at which
\* the minimum was reached exactly when the minimum is more than one chunk
C17_CutIsRunStart ==
    /\ RunIsCurrent
    /\ CutAtEarliestRun
    /\ (OneClipDone /\ args.min_silence_duration > 0
                    /\ results[1].ret = "path")
          => (results[1].trim_point # FirstTrigger
                  <=> args.min_silence_duration > ChunkSize)

\* a silent chunk, a chunk that resets the run, then a run of two silent
\* chunks that reaches a minimum of 20 ms and is cut at its start
C17_Witness ==
    /\ OneClipDone
    /\ args.min_silence_duration = 20
    /\ SilentAt(0)
    /\ ~SilentAt(10)
    /\ results[1].ret = "path"
    /\ results[1].trim_point = 20
    /\ results[1].scanned = 4

\* [loud for T ms][digital silence for exactly min_silence_duration ms], T and
\* the minimum on chunk boundaries, under a negative threshold
LoudThenTrailingSilence ==
    /\ Len(Clip) = 2
    /\ Clip[1].power = Loud
    /\ Clip[2].power = Zero
    /\ Clip[2].dur = args.min_silence_duration
    /\ Clip[1].dur % ChunkSize = 0
    /\ Clip[2].dur % ChunkSize = 0
    /\ args.silence_threshold < 0

\* C18: every full chunk is scanned, so a silent run of exactly the minimum
\* duration that ends at the end of the buffer is found and the buffer is cut
\* at the start of the run
C18_TrailingRunIsDetected ==
    (OneClipDone /\ LoudThenTrailingSilence /\ results[1].raised # "export")
        => /\ TrimmedAt(Clip[1].dur)
           /\ results[1].scanned = AudioLen(Clip) \div ChunkSize

\* no run of silent chunks of the first file's buffer reaches the minimum
NoQualifyingRun ==
    IF args.min_silence_duration > 0 THEN Triggers = {}
    ELSE ScanOffsets(Clip) = {}

\* C19: when the scan ends without a silent run that reaches the minimum
\* duration the call returns None and the files are as they were: nothing is
\* created or overwritten in the output directory, the input is untouched
C19_NoSilenceChangesNothing ==
    /\ (OneClipDone /\ NoQualifyingRun)
          => /\ results[1].ret = None
             /\ results[1].raised = "no"
             /\ fs = fs0
    /\ \A j \in 1..Len(results) :
          (results[j].ret = None /\ results[j].raised = "no")
              => LET file_path == InPath(results[j].file)
                 IN  /\ results[j].trim_point = -1
                     /\ fs[file_path] = fs0[file_path]
                     /\ fs[OutputPath(OutputDir, file_path)]
                            = fs0[OutputPath(OutputDir, file_path)]

\* a buffer whose only silent chunk is shorter than the minimum of 20 ms
C19_Witness ==
    /\ OneClipDone
    /\ args.min_silence_duration = 20
    /\ SilentAt(0)
    /\ NoQualifyingRun
    /\ results[1].ret = None
    /\ results[1].scanned >= 2
    /\ fs = fs0

\* --------------------------------------------------- claims on the marker
\* the window with the marker before the entry of line i and nowhere else
OnlyCurrentMarked ==
    LET start_idx == Max(0, ctx_index - 5)
        at == ctx_index - start_idx + 1
    IN  JoinLines([j \in 1..Len(ctx_window) |->
                      IF j = at THEN <<Marker>> \o ctx_window[j]
                      ELSE ctx_window[j]])

\* how many markers a text holds
RECURSIVE Markers(_)
Markers(text) ==
    IF Len(text) = 0 THEN 0
    ELSE (IF Head(text) = Marker THEN 1 ELSE 0) + Markers(Tail(text))

\* C21: exactly one position of the window is marked and it is the entry of
\* line i, also when another line of the window has the same text as line i
\* or contains it
C21_OnlyCurrentLineIsMarked ==
    ctx_pc = "marked" =>
        /\ Markers(ctx_highlight) = 1
        /\ ctx_highlight = OnlyCurrentMarked

\* --------------------------------------------- claims on crash and restart
\* a launch is complete and the progress store holds one record per line
CompleteWithFullStore ==
    /\ pc = "complete"
    /\ progress_file.state = "valid"
    /\ Len(progress_file.analyses) = Len(lines)

\* a launch never runs its loop body more than N - start_index times
LoopIsBounded ==
    Running => Len(processed) <= Len(lines) - start_index

\* C22 as stated: for every input, relaunched after each of finitely many
\* terminations, some launch reaches Complete with a store of exactly N
\* records, and the loop of a launch runs at most N - start_index times
C22_EventuallyCompleteForAnyInput ==
    /\ []LoopIsBounded
    /\ <>(launches > 0 /\
            IF first_input = <<>>
            THEN pc = "complete" /\ progress_file.state = "valid"
                 /\ Len(progress_file.analyses) = 0
            ELSE CompleteWithFullStore)

\* C22 as amended: for every input of at least one line, relaunched after
\* each of finitely many terminations, some launch reaches Complete with a
\* store of exactly N records, and the loop of a launch runs at most
\* N - start_index times
C22_EventuallyCompleteForNonEmptyInput ==
    /\ []LoopIsBounded
    /\ <>(launches > 0 /\ (first_input # <<>> => CompleteWithFullStore))

\* a launch that completes a three-line input after a termination in the
\* middle of a write
C22_Witness ==
    /\ CompleteWithFullStore
    /\ Len(lines) = 3
    /\ crashes > 0
    /\ ~clean_stops
    /\ start_index = 0

\* ------------------------------------------------ claims on the generator
\* the last two calls were mark_for_regeneration on a valid index, which
\* returned True, and then a batch_generation whose speech calls all succeeded
MarkedThenBatched ==
    /\ last_op.op = "batch"
    /\ last_op.all_ok
    /\ prev_op.op = "mark"
    /\ prev_op.ret = "True"
    /\ prev_op.index \in 0..(Len(script_data) - 1)

\* C23: after mark_for_regeneration(i), with the audio file kept or deleted,
\* and a successful batch_generation, line i has been regenerated and no line
\* is left with needs_regeneration = True
C23_MarkedLineIsRegeneratedByBatch ==
    MarkedThenBatched =>
        /\ prev_op.index \in generated
        /\ ~script_data[prev_op.index + 1].needs_regeneration
        /\ \A j \in 1..Len(script_data) : ~script_data[j].needs_regeneration

\* C24: mark_for_regeneration and generate_audio_for_line return False on
\* every index that is not a valid 0-based index, negative ones included, and
\* leave the script data and the saved file as they were; on a valid index
\* no line but the addressed one changes
C24_InvalidIndexIsRejected ==
    [][(op_count' = op_count + 1 /\ last_op'.op \in {"mark", "generate"}) =>
          LET n == Len(script_data)
              line_index == last_op'.index
          IN  IF line_index < 0 \/ line_index >= n
              THEN /\ last_op'.ret = "False"
                   /\ script_data' = script_data
                   /\ script_file' = script_file
              ELSE \A j \in 1..n :
                      j # line_index + 1 => script_data'[j] = script_data[j]
      ]_vars

====
